---- MODULE Spec2Model ----
(***************************************************************************)
(* gzip-hpp: Compressor::compress, Decompressor::decompress and            *)
(* is_compressed of include/gzip/compress.hpp, as a state machine.         *)
(*                                                                         *)
(* A buffer is a sequence of byte values 0..255.  An output container      *)
(* (std::string / std::vector<uint8_t>) is a record [len, data]: len is    *)
(* size(), data the bytes written so far; the elements past Len(data) are  *)
(* the value-initialised zeros resize() appends (see Contents).            *)
(*                                                                         *)
(* zlib is an external collaborator.  It is modelled by its streaming      *)
(* protocol (a call writes as much pending output as the window takes and  *)
(* returns a code) over a small container format with a 2-byte magic       *)
(* header, a stored block (level 0) or a run-length block (other levels),  *)
(* and a length trailer.  All sizes stay far below the width of size_t     *)
(* and unsigned int, so no arithmetic of the wrapper wraps.                *)
(***************************************************************************)
EXTENDS Integers, Sequences, FiniteSets, TLC

VARIABLES
    pc,         \* position of the single thread of control
    call,       \* the arguments of the call in progress
    output,     \* the caller's output container
    strm,       \* z_stream and the codec's internal state
    size_done,  \* size_compressed / size_uncompressed
    err,        \* the exception in flight or thrown
    inited,     \* deflateInit2 / inflateInit2 succeeded in this call
    ends,       \* number of deflateEnd / inflateEnd calls in this call
    stepped,    \* deflate / inflate was invoked in this call
    result      \* return value of is_compressed

vars == <<pc, call, output, strm, size_done, err, inited, ends, stepped, result>>

----------------------------------------------------------------------------
(* Bounds of the model *)

\* longest leading run of the small inputs
MaxRun == 15
\* longest second and third run of the small inputs
MaxTail == 1
\* length of the large input (a stored stream of it fills the first window)
BigLen == 2036
\* the small ceilings are 0..MaxCeil
MaxCeil == 32
\* longest source buffer whose stream is truncated at every position
MaxTrunc == 2
\* size of a non-empty output container handed in by the caller
PreLen == 1500

----------------------------------------------------------------------------
(* Program constants *)

GrowBase == 1024
DefaultMax == 2000000000
Z_DEFAULT_COMPRESSION == -1

Z_NULL == "Z_NULL"

----------------------------------------------------------------------------
(* Sequences and containers *)

Min2(a, b) == IF a < b THEN a ELSE b
Max2(a, b) == IF a > b THEN a ELSE b
Take(s, k) == SubSeq(s, 1, Min2(k, Len(s)))
Drop(s, k) == SubSeq(s, k + 1, Len(s))
Rep(b, n) == [i \in 1..n |-> b]

EmptyContainer == [len |-> 0, data |-> <<>>]

\* container.resize(n): truncates, or appends value-initialised elements
Resize(c, n) ==
    [len |-> n, data |-> IF Len(c.data) > n THEN Take(c.data, n) ELSE c.data]

\* the bytes of the container
Contents(c) == [i \in 1..c.len |-> IF i <= Len(c.data) THEN c.data[i] ELSE 0]

\* WriteAt with the offset forgotten: next_out = &output[0]
WriteAt_NoOffset(c, off, bytes) ==
    IF bytes = <<>> THEN c
    ELSE [c EXCEPT !.data =
            [i \in 1..Max2(Len(c.data), Len(bytes)) |->
                IF i <= Len(bytes) THEN bytes[i] ELSE c.data[i]]]

\* the codec writing `bytes` through next_out = &output[0] + off
WriteAt(c, off, bytes) ==
    IF bytes = <<>> THEN c
    ELSE [c EXCEPT !.data =
            [i \in 1..Max2(Len(c.data), off + Len(bytes)) |->
                IF i > off /\ i <= off + Len(bytes) THEN bytes[i - off]
                ELSE IF i <= Len(c.data) THEN c.data[i] ELSE 0]]

----------------------------------------------------------------------------
(* The codec (zlib), by its protocol *)

\* compression levels deflateInit2 accepts
ValidLevel(level) == level \in (Z_DEFAULT_COMPRESSION)..9

\* the run-length pairs <<count, byte>> of a buffer, counts at most 255
RECURSIVE Runs(_)
Runs(x) ==
    IF x = <<>> THEN <<>>
    ELSE LET stop == {i \in 1..Len(x) : x[i] # x[1]} \cup {Len(x) + 1, 256}
             k == (CHOOSE i \in stop : \A j \in stop : i <= j) - 1
         IN  <<k, x[1]>> \o Runs(Drop(x, k))

\* the complete stream deflate(Z_FINISH) produces for a buffer:
\* gzip magic, block type, block, length trailer
Deflate(x, level) ==
    IF level = 0
    THEN <<31, 139, 0, Len(x) \div 256, Len(x) % 256>> \o x \o <<Len(x) % 256>>
    ELSE <<31, 139, 1>> \o Runs(x) \o <<0, Len(x) % 256>>

\* what a parse yields: the bytes decoded, the code of the call that
\* delivers the last of them, and strm.msg at that point
Parsed(out, code, msg) == [out |-> out, code |-> code, msg |-> msg]

\* the trailer of a block that decoded to `out`
InflateTrailer(out, rest) ==
    IF rest = <<>> THEN Parsed(out, "Z_BUF_ERROR", Z_NULL)
    ELSE IF rest[1] # Len(out) % 256
         THEN Parsed(out, "Z_DATA_ERROR", "incorrect length check")
         ELSE Parsed(out, "Z_STREAM_END", Z_NULL)

\* a run-length block: pairs up to the end marker 0
RECURSIVE InflateRuns(_, _)
InflateRuns(out, rest) ==
    IF rest = <<>> THEN Parsed(out, "Z_BUF_ERROR", Z_NULL)
    ELSE IF rest[1] = 0 THEN InflateTrailer(out, Drop(rest, 1))
    ELSE IF Len(rest) < 2 THEN Parsed(out, "Z_BUF_ERROR", Z_NULL)
    ELSE InflateRuns(out \o Rep(rest[2], rest[1]), Drop(rest, 2))

\* a stored block: two length bytes and that many raw bytes
InflateStored(rest) ==
    IF Len(rest) < 2 THEN Parsed(<<>>, "Z_BUF_ERROR", Z_NULL)
    ELSE LET n == rest[1] * 256 + rest[2]
             body == Drop(rest, 2)
         IN  IF Len(body) < n THEN Parsed(body, "Z_BUF_ERROR", Z_NULL)
             ELSE InflateTrailer(Take(body, n), Drop(body, n))

\* inflate with window_bits 15 + 32 over the whole input: gzip or zlib
\* header detected, a zlib header with FDICT asks for a dictionary
InflateAll(data) ==
    IF Len(data) < 2 THEN Parsed(<<>>, "Z_BUF_ERROR", Z_NULL)
    ELSE IF <<data[1], data[2]>> = <<120, 187>>
         THEN IF Len(data) < 6 THEN Parsed(<<>>, "Z_BUF_ERROR", Z_NULL)
              ELSE Parsed(<<>>, "Z_NEED_DICT", Z_NULL)
    ELSE IF <<data[1], data[2]>> \notin {<<31, 139>>, <<120, 156>>}
         THEN Parsed(<<>>, "Z_DATA_ERROR", "incorrect header check")
    ELSE IF Len(data) < 3 THEN Parsed(<<>>, "Z_BUF_ERROR", Z_NULL)
    ELSE IF data[3] = 0 THEN InflateStored(Drop(data, 3))
    ELSE IF data[3] = 1 THEN InflateRuns(<<>>, Drop(data, 3))
    ELSE Parsed(<<>>, "Z_DATA_ERROR", "invalid block type")

\* z_stream before an init call
NoStream == [avail_out |-> 0, msg |-> Z_NULL, ret |-> "none",
             pending |-> <<>>, last |-> "none", lastmsg |-> Z_NULL]

\* one deflate / inflate call with Z_FINISH on a window of avail_out bytes:
\* the bytes written and the stream afterwards
CodecWritten(s) == Take(s.pending, s.avail_out)
CodecStep(s) ==
    LET k == Len(CodecWritten(s))
        rest == Drop(s.pending, k)
    IN  [s EXCEPT !.avail_out = s.avail_out - k,
                  !.pending = rest,
                  !.ret = IF rest # <<>> THEN "Z_BUF_ERROR" ELSE s.last,
                  !.msg = IF rest # <<>> THEN s.msg ELSE s.lastmsg]

----------------------------------------------------------------------------
(* Inputs *)

SmallInputs ==
    {Rep(97, i) \o Rep(98, j) \o Rep(97, k) :
        i \in 0..MaxRun, j \in 0..MaxTail, k \in 0..MaxTail}
BigInputs == {Rep(97, BigLen), Rep(97, BigLen) \o <<98>>}
Inputs == SmallInputs \cup BigInputs

\* Z_DEFAULT_COMPRESSION, stored, best, and a level zlib rejects
Levels == {Z_DEFAULT_COMPRESSION, 0, 9, 10}

Ceilings == (0..MaxCeil) \cup {DefaultMax}

\* the output container on entry: empty (the free functions) or not
Containers == {EmptyContainer, [len |-> PreLen, data |-> <<>>]}

NoErr == [type |-> "none", what |-> ""]
Err(type, what) == [type |-> type, what |-> what]
NoCall == [op |-> "none", data |-> <<>>, size |-> 0, max |-> 0, level |-> 0,
           out0 |-> EmptyContainer, chained |-> FALSE, src |-> <<>>]

Init ==
    /\ pc = "idle"
    /\ call = NoCall
    /\ output = EmptyContainer
    /\ strm = NoStream
    /\ size_done = 0
    /\ err = NoErr
    /\ inited = FALSE
    /\ ends = 0
    /\ stepped = FALSE
    /\ result = FALSE

----------------------------------------------------------------------------
(* Compressor::compress *)

\* if (size > max_)
CompressTooLarge(size, max) == size > max

\* Increase with the halving turned into a doubling
Increase_Doubled(size) == size * 2 + GrowBase

\* size_t increase = size / 2 + 1024
Increase(size) == size \div 2 + GrowBase

\* while (... .avail_out == 0)
LoopAgain(avail_out) == avail_out = 0

\* entry and the size check
CallCompress(x, level, max, out0) ==
    /\ call' = [NoCall EXCEPT !.op = "compress", !.data = x, !.size = Len(x),
                              !.max = max, !.level = level, !.out0 = out0]
    /\ output' = out0
    /\ IF CompressTooLarge(Len(x), max)
       THEN /\ pc' = "thrown"
            /\ err' = Err("runtime_error",
                          "size may use more memory than intended when decompressing")
       ELSE /\ pc' = "c_init"
            /\ err' = NoErr
    /\ UNCHANGED <<strm, size_done, inited, ends, stepped, result>>

\* deflateInit2, next_in, avail_in, size_compressed = 0
DeflateInit ==
    /\ pc = "c_init"
    /\ \E ok \in IF ValidLevel(call.level) THEN {TRUE, FALSE} ELSE {FALSE} :
        IF ok
        THEN /\ inited' = TRUE
             /\ strm' = [NoStream EXCEPT !.pending = Deflate(call.data, call.level),
                                         !.last = "Z_STREAM_END"]
             /\ size_done' = 0
             /\ pc' = "c_grow"
             /\ err' = NoErr
        ELSE /\ pc' = "thrown"
             /\ err' = Err("runtime_error", "deflate init failed")
             /\ UNCHANGED <<strm, size_done, inited>>
    /\ UNCHANGED <<call, output, ends, stepped, result>>

\* the head of the loop body: grow the container, set the window
CompressGrow ==
    /\ pc = "c_grow"
    /\ LET increase == Increase(call.size) IN
        \/ /\ output' = IF output.len < size_done + increase
                        THEN Resize(output, size_done + increase)
                        ELSE output
           /\ strm' = [strm EXCEPT !.avail_out = increase]
           /\ pc' = "c_deflate"
           /\ err' = NoErr
        \/ \* resize throws; nothing catches it
           /\ output.len < size_done + increase
           /\ pc' = "thrown"
           /\ err' = Err("bad_alloc", "std::bad_alloc")
           /\ UNCHANGED <<output, strm>>
    /\ UNCHANGED <<call, size_done, inited, ends, stepped, result>>

\* deflate(&deflate_s, Z_FINISH), the size update and the loop test
CompressDeflate ==
    /\ pc = "c_deflate"
    /\ LET increase == Increase(call.size)
           after == CodecStep(strm)
       IN  /\ strm' = after
           /\ output' = WriteAt(output, size_done, CodecWritten(strm))
           /\ size_done' = size_done + (increase - after.avail_out)
           /\ pc' = IF LoopAgain(after.avail_out) THEN "c_grow" ELSE "c_end"
    /\ stepped' = TRUE
    /\ UNCHANGED <<call, err, inited, ends, result>>

\* deflateEnd and the final resize
CompressEnd ==
    /\ pc = "c_end"
    /\ ends' = ends + 1
    /\ output' = Resize(output, size_done)
    /\ pc' = "returned"
    /\ UNCHANGED <<call, strm, size_done, err, inited, stepped, result>>

----------------------------------------------------------------------------
(* Decompressor::decompress *)

\* DecompressTooLarge without the doubled test
DecompressTooLarge_Single(size, max) == size > max

\* if (size > max_ || (size * 2) > max_)
DecompressTooLarge(size, max) == size > max \/ (size * 2) > max

\* std::size_t resize_to = size_uncompressed + 2 * size
ResizeTo(size_uncompressed, size) == size_uncompressed + 2 * size

\* OverCeiling with the test left out
OverCeiling_Never(resize_to, max) == FALSE

\* if (resize_to > max_)
OverCeiling(resize_to, max) == resize_to > max

\* if (ret != Z_STREAM_END && ret != Z_OK && ret != Z_BUF_ERROR)
InflateFailed(ret) == ret \notin {"Z_STREAM_END", "Z_OK", "Z_BUF_ERROR"}

\* buffers whose streams are also cut short at every position
TruncSources == {x \in SmallInputs : Len(x) <= MaxTrunc}
Prefixes(s) == {Take(s, k) : k \in 0..Len(s)}
Truncated ==
    UNION {Prefixes(Deflate(x, level)) : x \in TruncSources, level \in {0, 9}}

\* a zlib stream that needs a preset dictionary, a bad header, a bad block
\* type, a wrong length trailer, a zlib-framed stream, trailing bytes
Malformed ==
    {<<120, 187, 0, 0, 0, 1>>, <<0, 0, 0>>, <<31, 139, 7>>,
     <<31, 139, 1, 2, 97, 0, 3>>,
     <<120, 156, 1, 2, 97, 0, 2>>,
     <<31, 139, 1, 2, 97, 0, 2, 5, 5>>}

DecompInputs == Truncated \cup Malformed

\* entry
CallDecompress(data, max, out0) ==
    /\ call' = [NoCall EXCEPT !.op = "decompress", !.data = data,
                              !.size = Len(data), !.max = max, !.out0 = out0]
    /\ output' = out0
    /\ pc' = "d_init"
    /\ UNCHANGED <<strm, size_done, err, inited, ends, stepped, result>>

\* decompress(compress(x)): the result of a compress call that returned is
\* handed to decompress under the same ceiling
CallDecompressOutput ==
    /\ pc = "returned"
    /\ call.op = "compress"
    /\ call' = [NoCall EXCEPT !.op = "decompress", !.data = Contents(output),
                              !.size = output.len, !.max = call.max,
                              !.chained = TRUE, !.src = call.data]
    /\ output' = EmptyContainer
    /\ pc' = "d_init"
    /\ strm' = NoStream
    /\ size_done' = 0
    /\ err' = NoErr
    /\ inited' = FALSE
    /\ ends' = 0
    /\ stepped' = FALSE
    /\ UNCHANGED result

\* inflateInit2 and next_in
InflateInit ==
    /\ pc = "d_init"
    /\ \/ /\ inited' = TRUE
          /\ strm' = NoStream
          /\ pc' = "d_check"
          /\ err' = NoErr
       \/ /\ pc' = "thrown"
          /\ err' = Err("runtime_error", "inflate init failed")
          /\ UNCHANGED <<strm, inited>>
    /\ UNCHANGED <<call, output, size_done, ends, stepped, result>>

\* the size check, avail_in, size_uncompressed = 0
DecompressCheck ==
    /\ pc = "d_check"
    /\ IF DecompressTooLarge(call.size, call.max)
       THEN /\ ends' = ends + 1
            /\ pc' = "thrown"
            /\ err' = Err("runtime_error",
                          "size may use more memory than intended when decompressing")
            /\ UNCHANGED <<strm, size_done>>
       ELSE /\ LET p == InflateAll(Take(call.data, call.size)) IN
                strm' = [strm EXCEPT !.pending = p.out, !.last = p.code,
                                     !.lastmsg = p.msg]
            /\ size_done' = 0
            /\ pc' = "d_grow"
            /\ UNCHANGED <<ends, err>>
    /\ UNCHANGED <<call, output, inited, stepped, result>>

\* the head of the loop body, inside try: the ceiling, resize, the window
DecompressGrow ==
    /\ pc = "d_grow"
    /\ LET resize_to == ResizeTo(size_done, call.size) IN
        IF OverCeiling(resize_to, call.max)
        THEN /\ pc' = "d_catch"
             /\ err' = Err("runtime_error",
                    "size of output string will use more memory then intended when decompressing")
             /\ UNCHANGED <<output, strm>>
        ELSE \/ /\ output' = Resize(output, resize_to)
                /\ strm' = [strm EXCEPT !.avail_out = 2 * call.size]
                /\ pc' = "d_inflate"
                /\ err' = NoErr
             \/ \* resize throws
                /\ resize_to > output.len
                /\ pc' = "d_catch"
                /\ err' = Err("bad_alloc", "std::bad_alloc")
                /\ UNCHANGED <<output, strm>>
    /\ UNCHANGED <<call, size_done, inited, ends, stepped, result>>

\* what inflate may answer: the protocol step, or Z_STREAM_ERROR when
\* &output[0] of an empty std::vector yields a null next_out
InflateAnswers(s, out) ==
    {CodecStep(s)} \cup
    (IF out.len = 0
     THEN {[s EXCEPT !.ret = "Z_STREAM_ERROR", !.msg = Z_NULL]}
     ELSE {})

\* what std::string error_msg = inflate_s.msg followed by the throw does:
\* a null msg is undefined behaviour (libstdc++ throws std::logic_error,
\* other builds read through the null pointer)
MsgThrow(msg) ==
    IF msg = Z_NULL
    THEN {[pc |-> "d_catch",
           err |-> Err("logic_error", "basic_string: construction from null is not valid")],
          [pc |-> "crashed", err |-> Err("crash", "null pointer read")]}
    ELSE {[pc |-> "d_catch", err |-> Err("runtime_error", msg)]}

\* inflate(&inflate_s, Z_FINISH), the return-code test, the size update and
\* the loop test
DecompressInflate ==
    /\ pc = "d_inflate"
    /\ \E after \in InflateAnswers(strm, output) :
        /\ strm' = after
        /\ output' = IF after.ret = "Z_STREAM_ERROR" THEN output
                     ELSE WriteAt(output, size_done, CodecWritten(strm))
        /\ IF InflateFailed(after.ret)
           THEN /\ \E o \in MsgThrow(after.msg) : pc' = o.pc /\ err' = o.err
                /\ UNCHANGED size_done
           ELSE /\ size_done' = size_done + (2 * call.size - after.avail_out)
                /\ pc' = IF LoopAgain(after.avail_out) THEN "d_grow" ELSE "d_end"
                /\ UNCHANGED err
    /\ stepped' = TRUE
    /\ UNCHANGED <<call, inited, ends, result>>

\* the final resize (inside try) and inflateEnd
DecompressEnd ==
    /\ pc = "d_end"
    /\ output' = Resize(output, size_done)
    /\ ends' = ends + 1
    /\ pc' = "returned"
    /\ UNCHANGED <<call, strm, size_done, err, inited, stepped, result>>

\* catch (...) { inflateEnd(&inflate_s); throw; }
DecompressCatch ==
    /\ pc = "d_catch"
    /\ ends' = ends + 1
    /\ pc' = "thrown"
    /\ UNCHANGED <<call, output, strm, size_done, err, inited, stepped, result>>

----------------------------------------------------------------------------
(* is_compressed *)

\* buffers of up to three bytes over the signature bytes and two others
SigBytes == {31, 139, 120, 1, 94, 156, 218, 0}
SigInputs ==
    {<<>>} \cup {<<a>> : a \in SigBytes}
           \cup {<<a, b>> : a \in SigBytes, b \in SigBytes}
           \cup {<<a, b, c>> : a \in SigBytes, b \in SigBytes, c \in {0, 8}}

is_compressed(data, size) ==
    /\ size > 2
    /\ \/ /\ data[1] = 120
          /\ \/ data[2] = 156
             \/ data[2] = 1
             \/ data[2] = 218
             \/ data[2] = 94
       \/ (data[1] = 31 /\ data[2] = 139)

CallIsCompressed(data) ==
    /\ call' = [NoCall EXCEPT !.op = "is_compressed", !.data = data,
                              !.size = Len(data)]
    /\ result' = is_compressed(data, Len(data))
    /\ pc' = "returned"
    /\ UNCHANGED <<output, strm, size_done, err, inited, ends, stepped>>

----------------------------------------------------------------------------
(* The program *)

\* the caller is done with a finished call
Reset ==
    /\ pc \in {"returned", "thrown"}
    /\ pc' = "idle"
    /\ call' = NoCall
    /\ output' = EmptyContainer
    /\ strm' = NoStream
    /\ size_done' = 0
    /\ err' = NoErr
    /\ inited' = FALSE
    /\ ends' = 0
    /\ stepped' = FALSE
    /\ result' = FALSE

\* the steps inside a call
Step ==
    \/ DeflateInit
    \/ CompressGrow
    \/ CompressDeflate
    \/ CompressEnd
    \/ InflateInit
    \/ DecompressCheck
    \/ DecompressGrow
    \/ DecompressInflate
    \/ DecompressEnd
    \/ DecompressCatch

\* the caller starts a call on some input
Compress ==
    /\ pc = "idle"
    /\ \E x \in Inputs, level \in Levels, max \in Ceilings, out0 \in Containers :
          CallCompress(x, level, max, out0)

Decompress ==
    /\ pc = "idle"
    /\ \E data \in DecompInputs, max \in Ceilings, out0 \in Containers :
          CallDecompress(data, max, out0)

IsCompressed ==
    /\ pc = "idle"
    /\ \E data \in SigInputs : CallIsCompressed(data)

Next ==
    \/ Compress
    \/ Decompress
    \/ CallDecompressOutput
    \/ IsCompressed
    \/ Step
    \/ Reset

Spec == Init /\ [][Next]_vars

\* a single thread of control: a call in progress takes its next step
FairSpec == Spec /\ WF_vars(Step)

----------------------------------------------------------------------------
(* Properties *)

InCall == pc \notin {"idle", "returned", "thrown", "crashed"}
Left == pc \in {"returned", "thrown"}
SizeLimitText == "size may use more memory than intended when decompressing"
OutputLimitText ==
    "size of output string will use more memory then intended when decompressing"

\* the call failed for want of memory (a failed resize or a failed init)
OutOfMemory ==
    \/ err.type = "bad_alloc"
    \/ err.what \in {"deflate init failed", "inflate init failed"}

\* a decompress(compress(x)) call under the ceiling of the compress call is over
RoundTripOver ==
    /\ call.op = "decompress"
    /\ call.chained
    /\ pc \in {"returned", "thrown", "crashed"}
    /\ ~OutOfMemory

\* C1 as stated: whenever compress(x) was accepted under ceiling max,
\* decompress(compress(x)) under the same max returns normally with output
\* exactly x.
C1_RoundTripSameCeiling ==
    RoundTripOver => (pc = "returned" /\ Contents(output) = call.src)

\* C1 as amended: decompress(compress(x)) under the same ceiling returns
\* normally with output exactly x when every growth step fits the ceiling,
\* (size(x) div 2c + 1) * 2c <= max with c the compressed size, and fails
\* with one of the two size-limit runtime_errors otherwise.
C1_RoundTrip ==
    RoundTripOver =>
        LET c == call.size
            n == Len(call.src)
        IN  IF (n \div (2 * c) + 1) * (2 * c) <= call.max
            THEN pc = "returned" /\ Contents(output) = call.src
            ELSE /\ pc = "thrown"
                 /\ err.type = "runtime_error"
                 /\ err.what \in {SizeLimitText, OutputLimitText}

\* a round trip that took more than one inflate call and returned x
C1_Witness ==
    /\ RoundTripOver
    /\ pc = "returned"
    /\ Len(call.src) > 2 * call.size
    /\ Contents(output) = call.src

\* C2: during decompress the output container is never resized to a length
\* above max_, and when size_uncompressed + 2 * size exceeds max_ the call
\* throws (enters the handler) without resizing.
C2_DecompressCeiling ==
    [][call.op = "decompress" /\ call' = call =>
        /\ output'.len # output.len => output'.len <= call.max
        /\ (pc = "d_grow" /\ size_done + 2 * call.size > call.max) =>
              /\ pc' = "d_catch"
              /\ output' = output
              /\ err' = Err("runtime_error", OutputLimitText)]_vars

\* the ceiling stopped a decompress call after at least one full window
C2_Witness ==
    /\ call.op = "decompress"
    /\ pc = "d_catch"
    /\ err.what = OutputLimitText
    /\ size_done > 0
    /\ output.len = size_done
    /\ output.len <= call.max

\* C3 as stated: during compress with size <= max_ the output container's
\* length never exceeds max_.
C3_CompressOutputCeiling ==
    (/\ call.op = "compress"
     /\ call.out0.len = 0
     /\ pc \in {"c_init", "c_grow", "c_deflate", "c_end", "returned"})
        => output.len <= call.max

\* C3 as amended: during compress with size <= max_ the output container is
\* never longer than its length on entry or size_compressed + size/2 + 1024,
\* whichever is larger, and on return its length is size_compressed; max_
\* bounds the input only.
C3_CompressOutputBound ==
    (/\ call.op = "compress"
     /\ pc \in {"c_grow", "c_deflate", "c_end", "returned"})
        => /\ call.size <= call.max
           /\ output.len <= Max2(call.out0.len,
                                 size_done + call.size \div 2 + 1024)
           /\ pc = "returned" => output.len = size_done

\* compress grew an empty container past the ceiling in a second loop pass
C3_Witness ==
    /\ call.op = "compress"
    /\ pc = "c_deflate"
    /\ call.out0.len = 0
    /\ size_done > 0
    /\ output.len = size_done + call.size \div 2 + 1024

\* C4: an input larger than max_ (for decompress also 2 * size larger than
\* max_) makes the call fail with a runtime_error before any deflate /
\* inflate call and with the output container untouched; the size-limit
\* error is raised for no other input.
C4_InputCeiling ==
    /\ (call.op = "compress" /\ call.size > call.max) =>
          /\ pc = "thrown"
          /\ err = Err("runtime_error", SizeLimitText)
          /\ ~stepped
          /\ output = call.out0
    /\ (call.op = "decompress"
        /\ (call.size > call.max \/ 2 * call.size > call.max)) =>
          /\ pc \in {"d_init", "d_check", "thrown"}
          /\ pc = "thrown" => err.type = "runtime_error"
          /\ ~stepped
          /\ output = call.out0
    /\ err.what = SizeLimitText =>
          \/ call.size > call.max
          \/ call.op = "decompress" /\ 2 * call.size > call.max

\* decompress refused an input that fits max_ itself but not doubled
C4_Witness ==
    /\ call.op = "decompress"
    /\ pc = "thrown"
    /\ err = Err("runtime_error", SizeLimitText)
    /\ call.size <= call.max
    /\ call.size > 0
    /\ ends = 1

\* the gzip and zlib signatures
Signature(a, b) ==
    \/ (a = 31 /\ b = 139)
    \/ (a = 120 /\ b \in {1, 94, 156, 218})

\* C5: is_compressed is true exactly for the buffers of at least two bytes
\* whose first two bytes are a gzip or zlib signature.
C5_Signature ==
    (call.op = "is_compressed" /\ pc = "returned") =>
        (result <=> (call.size >= 2 /\ Signature(call.data[1], call.data[2])))

\* C6: every compress or decompress call returns or throws.
C6_Terminates == InCall ~> (pc \in {"returned", "thrown", "crashed"})

\* C7: an inflate code other than Z_STREAM_END, Z_OK, Z_BUF_ERROR ends the
\* loop at once with a runtime_error that carries the codec's message, and
\* that message is not null.
C7_CodecError ==
    (/\ call.op = "decompress"
     /\ strm.ret \notin {"none", "Z_STREAM_END", "Z_OK", "Z_BUF_ERROR"})
        => /\ pc \in {"d_catch", "thrown"}
           /\ strm.msg # Z_NULL
           /\ err = Err("runtime_error", strm.msg)

\* C8: decompress returns normally only after the codec reported
\* Z_STREAM_END on its last call.
C8_ReturnsOnlyAtStreamEnd ==
    (call.op = "decompress" /\ pc = "returned") => strm.ret = "Z_STREAM_END"

\* C9: when control leaves compress or decompress, the codec's end
\* operation has been called exactly once if the init succeeded and not at
\* all if it failed.
C9_EndOnce ==
    (call.op \in {"compress", "decompress"} /\ Left) =>
        ends = (IF inited THEN 1 ELSE 0)

====
